---- MODULE Spec2Model ----
(***************************************************************************)
(* REToolForge rental ROI calculator.                                      *)
(*                                                                         *)
(* Two versions of the calculator script live in the repository:           *)
(*   src/tools/rental-roi.js   asNumber / computeDealFromInputs            *)
(*   src/unnamed/part_000      asNumber / computeDeal                      *)
(* Both are modelled, side by side.                                        *)
(*                                                                         *)
(* JavaScript numbers are modelled as exact rationals extended with NaN    *)
(* and the two infinities; the rounding of IEEE-754 doubles is abstracted. *)
(***************************************************************************)
EXTENDS Integers, Sequences, FiniteSets, TLC

VARIABLES
    elPresent,  \* asNumber: does document.getElementById(id) find an element
    elValue,    \* asNumber: el.value, a sequence of character tokens
    numRoi,     \* what asNumber of rental-roi.js returned (undefined before the call)
    numPart,    \* what asNumber of part_000 returned (undefined before the call)
    inputs,     \* the twelve numbers the engines work on
    dealRoi,    \* what computeDealFromInputs returned (undefined before the call)
    dealPart    \* what computeDeal returned (undefined before the call)

\* the calculator page
VARIABLES
    script,       \* which script the page runs: "roi" (rental-roi.js) or "part" (part_000)
    loaded,       \* the DOMContentLoaded handler: "no", "wired", "returned", "threw"
    form,         \* the text of the form fields
    lastComputed, \* rental-roi.js: let lastComputed
    lastSummary,  \* part_000: form.dataset.lastSummary
    display,      \* the textContent of the result elements
    chips,        \* the status chips: textContent, variant class, visible class
    timers,       \* per chip, the milliseconds left to each of its pending hide timers
    pendingCopy,  \* how many clipboard.writeText calls are not settled yet
    storage,      \* localStorage's entry under STORAGE_KEY
    effect,       \* what the last handler did to its surroundings
    calculated    \* has a Calculate stored a result since page load and the last Reset

\* the subscription handler
VARIABLES
    req,       \* the request: method and body
    upstream,  \* how the subscription service behaves for this request
    pc,        \* where the handler is: "start", "fetching", "reading", "done", "threw"
    sent,      \* the status codes of the responses sent, in order
    contacted  \* how many times the subscription service was called

engineVars == <<elPresent, elValue, numRoi, numPart, inputs, dealRoi, dealPart>>
pageVars ==
    <<script, loaded, form, lastComputed, lastSummary, display, chips, timers,
      pendingCopy, storage, effect, calculated>>
handlerVars == <<req, upstream, pc, sent, contacted>>

vars == <<engineVars, pageVars, handlerVars>>

-----------------------------------------------------------------------------
(* JavaScript numbers *)

Abs(i) == IF i < 0 THEN -i ELSE i

RECURSIVE GCD(_, _)
GCD(a, b) == IF b = 0 THEN a ELSE GCD(b, a % b)

\* the finite number n/d in lowest terms, d > 0
Rat(n, d) ==
    LET g == GCD(Abs(n), Abs(d))
        s == IF d < 0 THEN -1 ELSE 1
    IN  [kind |-> "fin", n |-> s * (n \div g), d |-> s * (d \div g)]

Num(i) == [kind |-> "fin", n |-> i, d |-> 1]
NaN == [kind |-> "nan", n |-> 0, d |-> 1]
Infinity == [kind |-> "inf", n |-> 1, d |-> 1]
NegInfinity == [kind |-> "inf", n |-> -1, d |-> 1]

isNaN(x) == x.kind = "nan"
isFinite(x) == x.kind = "fin"

\* -1, 0 or 1 for a number that is not NaN
Sign(x) == IF x.n > 0 THEN 1 ELSE IF x.n < 0 THEN -1 ELSE 0

Neg(x) == [x EXCEPT !.n = -x.n]

\* x + y
Add(x, y) ==
    IF isNaN(x) \/ isNaN(y) THEN NaN
    ELSE IF x.kind = "inf" /\ y.kind = "inf"
         THEN IF x.n = y.n THEN x ELSE NaN
    ELSE IF x.kind = "inf" THEN x
    ELSE IF y.kind = "inf" THEN y
    ELSE LET g == GCD(x.d, y.d)
         IN  Rat(x.n * (y.d \div g) + y.n * (x.d \div g), (x.d \div g) * y.d)

\* x - y
Sub(x, y) == Add(x, Neg(y))

\* x * y
Mul(x, y) ==
    IF isNaN(x) \/ isNaN(y) THEN NaN
    ELSE IF x.kind = "inf" \/ y.kind = "inf"
         THEN IF Sign(x) * Sign(y) = 0 THEN NaN
              ELSE IF Sign(x) * Sign(y) > 0 THEN Infinity ELSE NegInfinity
    ELSE LET g1 == GCD(Abs(x.n), y.d)
             g2 == GCD(Abs(y.n), x.d)
         IN  Rat((x.n \div g1) * (y.n \div g2), (x.d \div g2) * (y.d \div g1))

\* x / y
Div(x, y) ==
    IF isNaN(x) \/ isNaN(y) THEN NaN
    ELSE IF x.kind = "inf"
         THEN IF y.kind = "inf" THEN NaN
              ELSE IF Sign(y) < 0 THEN Neg(x) ELSE x
    ELSE IF y.kind = "inf" THEN Num(0)
    ELSE IF y.n = 0
         THEN IF x.n = 0 THEN NaN
              ELSE IF x.n > 0 THEN Infinity ELSE NegInfinity
    ELSE Mul(x, Rat(y.d, y.n))

\* x < y; false when either side is NaN
Lt(x, y) ==
    IF isNaN(x) \/ isNaN(y) THEN FALSE
    ELSE IF x.kind = "inf" THEN x.n < 0 /\ y # x
    ELSE IF y.kind = "inf" THEN y.n > 0
    ELSE x.n * y.d < y.n * x.d

Gt(x, y) == Lt(y, x)
\* x <= y and x >= y; false when either side is NaN
Le(x, y) == ~isNaN(x) /\ ~isNaN(y) /\ ~Lt(y, x)
Ge(x, y) == Le(y, x)

\* Math.max(x, y)
Math_max(x, y) ==
    IF isNaN(x) \/ isNaN(y) THEN NaN
    ELSE IF Lt(x, y) THEN y ELSE x

\* Math.pow(x, k) for a whole exponent k >= 0
RECURSIVE Math_pow(_, _)
Math_pow(x, k) == IF k = 0 THEN Num(1) ELSE Mul(x, Math_pow(x, k - 1))

-----------------------------------------------------------------------------
(* asNumber: text of a form field -> number *)

\* Longest text of a field the model tries.
MaxLen == 3

\* The character tokens a field's text is made of. "Infinity" stands for the
\* eight letters of that word, "a" for any character no numeral contains.
Chars == {"0", "1", "-", " ", "a", "Infinity"}
Digits == {"0", "1"}

RECURSIVE Texts(_)
Texts(k) ==
    IF k = 0 THEN {<<>>}
    ELSE LET shorter == Texts(k - 1)
         IN  shorter \cup {Append(t, c) : t \in {u \in shorter : Len(u) = k - 1}, c \in Chars}

RECURSIVE TrimStart(_)
TrimStart(s) == IF s # <<>> /\ Head(s) = " " THEN TrimStart(Tail(s)) ELSE s

RECURSIVE TrimEnd(_)
TrimEnd(s) ==
    IF s # <<>> /\ s[Len(s)] = " " THEN TrimEnd(SubSeq(s, 1, Len(s) - 1)) ELSE s

\* String.prototype.trim
trim(s) == TrimEnd(TrimStart(s))

\* the leading digits of s
RECURSIVE DigitPrefix(_)
DigitPrefix(s) ==
    IF s # <<>> /\ Head(s) \in Digits THEN <<Head(s)>> \o DigitPrefix(Tail(s)) ELSE <<>>

\* the value of a decimal digit string
RECURSIVE DecimalValue(_)
DecimalValue(ds) ==
    IF ds = <<>> THEN 0
    ELSE 10 * DecimalValue(SubSeq(ds, 1, Len(ds) - 1))
         + (IF ds[Len(ds)] = "1" THEN 1 ELSE 0)

\* the number an unsigned text starts with, NaN when it starts with none
UnsignedPrefix(s) ==
    IF s # <<>> /\ Head(s) = "Infinity" THEN Infinity
    ELSE IF DigitPrefix(s) # <<>> THEN Num(DecimalValue(DigitPrefix(s)))
    ELSE NaN

\* how many tokens of s the numeral UnsignedPrefix(s) takes
UnsignedPrefixLen(s) ==
    IF s # <<>> /\ Head(s) = "Infinity" THEN 1 ELSE Len(DigitPrefix(s))

\* parseFloat(s): leading white space is skipped, the longest numeral the
\* rest starts with is read, what follows it is ignored
parseFloat(s) ==
    LET t == TrimStart(s)
    IN  IF t # <<>> /\ Head(t) = "-"
        THEN LET v == UnsignedPrefix(Tail(t)) IN IF isNaN(v) THEN NaN ELSE Neg(v)
        ELSE UnsignedPrefix(t)

\* Number(s): white space around is dropped, the empty text is 0, and the
\* whole of the rest has to be one numeral
Number(s) ==
    LET t == trim(s)
        u == IF t # <<>> /\ Head(t) = "-" THEN Tail(t) ELSE t
        v == UnsignedPrefix(u)
    IN  IF t = <<>> THEN Num(0)
        ELSE IF isNaN(v) \/ UnsignedPrefixLen(u) # Len(u) THEN NaN
        ELSE IF u # t THEN Neg(v) ELSE v

\* src/tools/rental-roi.js asNumber
asNumber_roi(present, value) ==
    IF ~present THEN Num(0)
    ELSE LET v == parseFloat(value)
         IN  IF isNaN(v) THEN Num(0) ELSE v

\* src/unnamed/part_000 asNumber
asNumber_part(present, value) ==
    IF ~present THEN Num(0)
    ELSE LET rawText == trim(value)
             n == IF rawText = <<>> THEN Num(0) ELSE Number(rawText)
         IN  IF isNaN(n) THEN Num(0) ELSE n

-----------------------------------------------------------------------------
(* The engine of src/tools/rental-roi.js: computeDealFromInputs *)

\* the value of a variable before anything is assigned to it
undefined == [isUndefined |-> TRUE]
\* JavaScript's null
null == [isNull |-> TRUE]

\* const downPaymentAmount = (purchasePrice * downPaymentPercent) / 100;
downPaymentAmount_roi(purchasePrice, downPaymentPercent) ==
    Div(Mul(purchasePrice, downPaymentPercent), Num(100))

\* const loanAmount = Math.max(purchasePrice - downPaymentAmount, 0);
loanAmount_roi(purchasePrice, downPaymentAmount) ==
    Math_max(Sub(purchasePrice, downPaymentAmount), Num(0))

\* nMonths, monthlyRate and the amortization branch. Math.pow is modelled
\* for a whole number of months.
monthlyMortgage_roi(loanAmount, interestRate, loanTermYears) ==
    LET nMonths == Mul(loanTermYears, Num(12))
        monthlyRate == IF Gt(interestRate, Num(0))
                       THEN Div(Div(interestRate, Num(100)), Num(12))
                       ELSE Num(0)
        factor == Math_pow(Add(Num(1), monthlyRate), nMonths.n)
    IN  IF Gt(loanAmount, Num(0)) /\ Gt(nMonths, Num(0))
        THEN IF Gt(monthlyRate, Num(0))
             THEN Div(Mul(Mul(loanAmount, monthlyRate), factor), Sub(factor, Num(1)))
             ELSE Div(loanAmount, nMonths)
        ELSE Num(0)

\* const maintenanceVacancy = (monthlyRent * maintenancePercent) / 100;
maintenanceVacancy_roi(monthlyRent, maintenancePercent) ==
    Div(Mul(monthlyRent, maintenancePercent), Num(100))

totalMonthlyExpenses_roi(monthlyMortgage, monthlyTaxes, monthlyInsurance, monthlyHOA, maintenanceVacancy, otherMonthly) ==
    Add(Add(Add(Add(Add(monthlyMortgage, monthlyTaxes), monthlyInsurance),
                monthlyHOA),
            maintenanceVacancy),
        otherMonthly)

\* monthlyCashFlow with a floor at zero
monthlyCashFlow_flooredAtZero(grossMonthlyIncome, totalMonthlyExpenses) ==
    Math_max(Sub(grossMonthlyIncome, totalMonthlyExpenses), Num(0))

\* const monthlyCashFlow = grossMonthlyIncome - totalMonthlyExpenses;
monthlyCashFlow_roi(grossMonthlyIncome, totalMonthlyExpenses) ==
    Sub(grossMonthlyIncome, totalMonthlyExpenses)

\* const annualCashFlow = monthlyCashFlow * 12;
annualCashFlow_roi(monthlyCashFlow) == Mul(monthlyCashFlow, Num(12))

\* monthlyNOI with the mortgage payment counted as an operating expense
monthlyNOI_afterMortgage(grossMonthlyIncome, monthlyMortgage, monthlyTaxes, monthlyInsurance, monthlyHOA, maintenanceVacancy, otherMonthly) ==
    Sub(grossMonthlyIncome,
        Add(Add(Add(Add(Add(monthlyMortgage, monthlyTaxes), monthlyInsurance),
                    monthlyHOA),
                maintenanceVacancy),
            otherMonthly))

\* monthlyOperatingExpensesExMortgage and monthlyNOI ("NOI for cap rate
\* (exclude mortgage)"): monthlyMortgage is in scope here and is left out
monthlyNOI_roi(grossMonthlyIncome, monthlyMortgage, monthlyTaxes, monthlyInsurance, monthlyHOA, maintenanceVacancy, otherMonthly) ==
    LET monthlyOperatingExpensesExMortgage ==
            Add(Add(Add(Add(monthlyTaxes, monthlyInsurance), monthlyHOA),
                    maintenanceVacancy),
                otherMonthly)
    IN  Sub(grossMonthlyIncome, monthlyOperatingExpensesExMortgage)

capRate_roi(annualNOI, purchasePrice) ==
    IF Gt(purchasePrice, Num(0))
    THEN Div(Mul(annualNOI, Num(100)), purchasePrice)
    ELSE NaN

totalCashInvested_roi(downPaymentAmount, closingCosts, upfrontRepairs) ==
    Add(Add(downPaymentAmount, closingCosts), upfrontRepairs)

cashOnCash_roi(annualCashFlow, totalCashInvested) ==
    IF Gt(totalCashInvested, Num(0))
    THEN Div(Mul(annualCashFlow, Num(100)), totalCashInvested)
    ELSE NaN

\* the verdict logic: the label chosen for (monthlyCashFlow, cashOnCash)
verdictLabel_roi(monthlyCashFlow, cashOnCash) ==
    IF Lt(monthlyCashFlow, Num(0)) THEN "Negative cash flow - be cautious"
    ELSE IF Ge(monthlyCashFlow, Num(0)) /\ Lt(monthlyCashFlow, Num(200))
         THEN "Barely cash-flow positive"
    ELSE IF Ge(monthlyCashFlow, Num(200)) /\ Ge(cashOnCash, Num(8))
         THEN "Strong on paper"
    ELSE "Tight cash flow - verify numbers"

verdictTone_roi(monthlyCashFlow, cashOnCash) ==
    IF Lt(monthlyCashFlow, Num(0)) THEN "bad"
    ELSE IF Ge(monthlyCashFlow, Num(0)) /\ Lt(monthlyCashFlow, Num(200)) THEN "weak"
    ELSE IF Ge(monthlyCashFlow, Num(200)) /\ Ge(cashOnCash, Num(8)) THEN "strong"
    ELSE "neutral"

\* the sanity check: "we need at least a price + rent"
insufficient_roi(purchasePrice, monthlyRent) ==
    Le(purchasePrice, Num(0)) \/ Le(monthlyRent, Num(0))

\* computeDealFromInputs from the statement after the mortgage payment on
\* (monthlyTaxes, line 97) to the return, for the payment the lines before
\* it computed
dealWithMortgage_roi(in, monthlyMortgage) ==
    LET downPaymentAmount == downPaymentAmount_roi(in.purchasePrice, in.downPaymentPercent)
        loanAmount == loanAmount_roi(in.purchasePrice, downPaymentAmount)
        monthlyTaxes == Div(in.annualTaxes, Num(12))
        monthlyInsurance == Div(in.annualInsurance, Num(12))
        maintenanceVacancy ==
            maintenanceVacancy_roi(in.monthlyRent, in.maintenancePercent)
        totalMonthlyExpenses ==
            totalMonthlyExpenses_roi(monthlyMortgage, monthlyTaxes, monthlyInsurance,
                                     in.monthlyHOA, maintenanceVacancy, in.otherMonthly)
        grossMonthlyIncome == in.monthlyRent
        monthlyCashFlow == monthlyCashFlow_roi(grossMonthlyIncome, totalMonthlyExpenses)
        annualCashFlow == annualCashFlow_roi(monthlyCashFlow)
        monthlyNOI ==
            monthlyNOI_roi(grossMonthlyIncome, monthlyMortgage, monthlyTaxes,
                           monthlyInsurance, in.monthlyHOA, maintenanceVacancy,
                           in.otherMonthly)
        annualNOI == Mul(monthlyNOI, Num(12))
        capRate == capRate_roi(annualNOI, in.purchasePrice)
        closingCosts == Div(Mul(in.purchasePrice, in.closingCostsPercent), Num(100))
        totalCashInvested ==
            totalCashInvested_roi(downPaymentAmount, closingCosts, in.upfrontRepairs)
        cashOnCash == cashOnCash_roi(annualCashFlow, totalCashInvested)
    IN  IF insufficient_roi(in.purchasePrice, in.monthlyRent) THEN null
        ELSE [ downPaymentAmount    |-> downPaymentAmount,
               loanAmount           |-> loanAmount,
               monthlyMortgage      |-> monthlyMortgage,
               monthlyTaxes         |-> monthlyTaxes,
               monthlyInsurance     |-> monthlyInsurance,
               maintenanceVacancy   |-> maintenanceVacancy,
               totalMonthlyExpenses |-> totalMonthlyExpenses,
               grossMonthlyIncome   |-> grossMonthlyIncome,
               monthlyCashFlow      |-> monthlyCashFlow,
               annualCashFlow       |-> annualCashFlow,
               monthlyNOI           |-> monthlyNOI,
               annualNOI            |-> annualNOI,
               capRate              |-> capRate,
               closingCosts         |-> closingCosts,
               totalCashInvested    |-> totalCashInvested,
               cashOnCash           |-> cashOnCash,
               verdictLabel         |-> verdictLabel_roi(monthlyCashFlow, cashOnCash),
               verdictTone          |-> verdictTone_roi(monthlyCashFlow, cashOnCash) ]

\* computeDealFromInputs, on the numbers asNumber read from the form
computeDealFromInputs(in) ==
    LET downPaymentAmount == downPaymentAmount_roi(in.purchasePrice, in.downPaymentPercent)
        loanAmount == loanAmount_roi(in.purchasePrice, downPaymentAmount)
    IN  dealWithMortgage_roi(in, monthlyMortgage_roi(loanAmount, in.interestRate, in.loanTermYears))

\* the numeric fields of the object computeDealFromInputs returns
NumericFields_roi ==
    { "downPaymentAmount", "loanAmount", "monthlyMortgage", "monthlyTaxes",
      "monthlyInsurance", "maintenanceVacancy", "totalMonthlyExpenses",
      "grossMonthlyIncome", "monthlyCashFlow", "annualCashFlow", "monthlyNOI",
      "annualNOI", "capRate", "closingCosts", "totalCashInvested", "cashOnCash" }

-----------------------------------------------------------------------------
(* The engine of src/unnamed/part_000: computeDeal *)

\* const downPaymentAmount = purchasePrice * (downPaymentPercent / 100);
downPaymentAmount_part(purchasePrice, downPaymentPercent) ==
    Mul(purchasePrice, Div(downPaymentPercent, Num(100)))

\* const loanAmount = purchasePrice - downPaymentAmount;
loanAmount_part(purchasePrice, downPaymentAmount) ==
    Sub(purchasePrice, downPaymentAmount)

\* the amortization branch. Math.pow is modelled for a whole number of months.
monthlyMortgage_part(loanAmount, interestRate, loanTermYears) ==
    LET r == Div(Div(interestRate, Num(100)), Num(12))
        n == Mul(loanTermYears, Num(12))
    IN  IF Gt(loanAmount, Num(0)) /\ Gt(interestRate, Num(0))
           /\ Gt(loanTermYears, Num(0))
        THEN Div(Mul(Mul(loanAmount, r), Math_pow(Add(Num(1), r), n.n)),
                 Sub(Math_pow(Add(Num(1), r), n.n), Num(1)))
        ELSE Num(0)

\* const maintVacancy = monthlyRent * (maintenancePercent / 100);
maintVacancy_part(monthlyRent, maintenancePercent) ==
    Mul(monthlyRent, Div(maintenancePercent, Num(100)))

\* totalMonthlyExpenses with the maintenance and vacancy reserve forgotten
totalMonthlyExpenses_withoutReserve(monthlyMortgage, monthlyTaxes, monthlyInsurance, monthlyHOA, maintVacancy, otherMonthly) ==
    Add(Add(Add(Add(monthlyMortgage, monthlyTaxes), monthlyInsurance), monthlyHOA),
        otherMonthly)

totalMonthlyExpenses_part(monthlyMortgage, monthlyTaxes, monthlyInsurance, monthlyHOA, maintVacancy, otherMonthly) ==
    Add(Add(Add(Add(Add(monthlyMortgage, monthlyTaxes), monthlyInsurance),
                monthlyHOA),
            maintVacancy),
        otherMonthly)

\* const monthlyCashFlow = grossMonthlyIncome - totalMonthlyExpenses;
monthlyCashFlow_part(grossMonthlyIncome, totalMonthlyExpenses) ==
    Sub(grossMonthlyIncome, totalMonthlyExpenses)

\* const annualCashFlow = monthlyCashFlow * 12;
annualCashFlow_part(monthlyCashFlow) == Mul(monthlyCashFlow, Num(12))

\* annualNOI with the debt service taken off
annualNOI_afterDebtService(grossMonthlyIncome, monthlyMortgage, annualTaxes, annualInsurance, monthlyHOA, maintVacancy, otherMonthly) ==
    Sub(Mul(grossMonthlyIncome, Num(12)),
        Add(Add(Add(Add(Add(annualTaxes, annualInsurance), Mul(monthlyHOA, Num(12))),
                    Mul(maintVacancy, Num(12))),
                Mul(otherMonthly, Num(12))),
            Mul(monthlyMortgage, Num(12))))

\* annualNOI: monthlyMortgage is in scope here and is left out
annualNOI_part(grossMonthlyIncome, monthlyMortgage, annualTaxes, annualInsurance, monthlyHOA, maintVacancy, otherMonthly) ==
    Sub(Mul(grossMonthlyIncome, Num(12)),
        Add(Add(Add(Add(annualTaxes, annualInsurance), Mul(monthlyHOA, Num(12))),
                Mul(maintVacancy, Num(12))),
            Mul(otherMonthly, Num(12))))

capRate_part(annualNOI, purchasePrice) ==
    IF Gt(purchasePrice, Num(0))
    THEN Mul(Div(annualNOI, purchasePrice), Num(100))
    ELSE Num(0)

\* totalCashInvested with the closing costs forgotten
totalCashInvested_withoutClosingCosts(downPaymentAmount, closingCostsAmount, upfrontRepairs) ==
    Add(downPaymentAmount, upfrontRepairs)

totalCashInvested_part(downPaymentAmount, closingCostsAmount, upfrontRepairs) ==
    Add(Add(downPaymentAmount, closingCostsAmount), upfrontRepairs)

cashOnCashReturn_part(annualCashFlow, totalCashInvested) ==
    IF Gt(totalCashInvested, Num(0))
    THEN Mul(Div(annualCashFlow, totalCashInvested), Num(100))
    ELSE Num(0)

\* the verdict logic: the label chosen for (monthlyCashFlow, cashOnCashReturn)
verdictLabel_part(monthlyCashFlow, cashOnCashReturn) ==
    IF Gt(monthlyCashFlow, Num(0)) /\ Ge(cashOnCashReturn, Num(12))
    THEN "Strong on paper"
    ELSE IF Ge(monthlyCashFlow, Num(0)) /\ Ge(cashOnCashReturn, Num(8))
         THEN "Decent, stress-test it"
    ELSE IF Lt(monthlyCashFlow, Num(0)) THEN "Negative cash flow - be cautious"
    ELSE "Borderline - cash flow is thin"

verdictTone_part(monthlyCashFlow, cashOnCashReturn) ==
    IF Gt(monthlyCashFlow, Num(0)) /\ Ge(cashOnCashReturn, Num(12)) THEN "strong"
    ELSE IF Ge(monthlyCashFlow, Num(0)) /\ Ge(cashOnCashReturn, Num(8)) THEN "ok"
    ELSE IF Lt(monthlyCashFlow, Num(0)) THEN "weak"
    ELSE "neutral"

\* computeDeal from the statement after the mortgage payment on (monthlyTaxes,
\* line 110) to the return, for the payment the lines before it computed.
\* The object computeDeal returns holds the fields of ReturnedFields_part
\* and the verdict; the other fields below are the function's locals, kept
\* for the properties that speak of them.
dealWithMortgage_part(in, monthlyMortgage) ==
    LET downPaymentAmount == downPaymentAmount_part(in.purchasePrice, in.downPaymentPercent)
        loanAmount == loanAmount_part(in.purchasePrice, downPaymentAmount)
        monthlyTaxes == Div(in.annualTaxes, Num(12))
        monthlyInsurance == Div(in.annualInsurance, Num(12))
        maintVacancy == maintVacancy_part(in.monthlyRent, in.maintenancePercent)
        totalMonthlyExpenses ==
            totalMonthlyExpenses_part(monthlyMortgage, monthlyTaxes, monthlyInsurance,
                                      in.monthlyHOA, maintVacancy, in.otherMonthly)
        grossMonthlyIncome == in.monthlyRent
        monthlyCashFlow == monthlyCashFlow_part(grossMonthlyIncome, totalMonthlyExpenses)
        annualCashFlow == annualCashFlow_part(monthlyCashFlow)
        annualNOI ==
            annualNOI_part(grossMonthlyIncome, monthlyMortgage, in.annualTaxes,
                           in.annualInsurance, in.monthlyHOA, maintVacancy,
                           in.otherMonthly)
        capRate == capRate_part(annualNOI, in.purchasePrice)
        closingCostsAmount == Mul(in.purchasePrice, Div(in.closingCostsPercent, Num(100)))
        totalCashInvested ==
            totalCashInvested_part(downPaymentAmount, closingCostsAmount, in.upfrontRepairs)
        cashOnCashReturn == cashOnCashReturn_part(annualCashFlow, totalCashInvested)
    IN  [ downPaymentAmount    |-> downPaymentAmount,
          loanAmount           |-> loanAmount,
          monthlyMortgage      |-> monthlyMortgage,
          monthlyTaxes         |-> monthlyTaxes,
          monthlyInsurance     |-> monthlyInsurance,
          maintVacancy         |-> maintVacancy,
          totalMonthlyExpenses |-> totalMonthlyExpenses,
          grossMonthlyIncome   |-> grossMonthlyIncome,
          monthlyCashFlow      |-> monthlyCashFlow,
          annualCashFlow       |-> annualCashFlow,
          annualNOI            |-> annualNOI,
          capRate              |-> capRate,
          closingCostsAmount   |-> closingCostsAmount,
          totalCashInvested    |-> totalCashInvested,
          cashOnCashReturn     |-> cashOnCashReturn,
          verdictLabel         |-> verdictLabel_part(monthlyCashFlow, cashOnCashReturn),
          verdictTone          |-> verdictTone_part(monthlyCashFlow, cashOnCashReturn) ]

\* computeDeal
computeDeal(in) ==
    LET downPaymentAmount == downPaymentAmount_part(in.purchasePrice, in.downPaymentPercent)
        loanAmount == loanAmount_part(in.purchasePrice, downPaymentAmount)
    IN  dealWithMortgage_part(in, monthlyMortgage_part(loanAmount, in.interestRate, in.loanTermYears))

\* the numeric fields of the object computeDeal returns
ReturnedFields_part ==
    { "monthlyMortgage", "totalMonthlyExpenses", "monthlyCashFlow", "annualCashFlow",
      "capRate", "totalCashInvested", "cashOnCashReturn", "maintVacancy" }

-----------------------------------------------------------------------------
(* The page and the subscription handler while only the engines run *)

\* no page is open
PageIdle ==
    /\ script = "roi"
    /\ loaded = "no"
    /\ form = undefined
    /\ lastComputed = undefined
    /\ lastSummary = undefined
    /\ display = undefined
    /\ chips = undefined
    /\ timers = undefined
    /\ pendingCopy = 0
    /\ storage = undefined
    /\ effect = undefined
    /\ calculated = FALSE

\* no request has come in
HandlerIdle ==
    /\ req = undefined
    /\ upstream = undefined
    /\ pc = "start"
    /\ sent = <<>>
    /\ contacted = 0

-----------------------------------------------------------------------------
(* The inputs the engines are run on *)

\* monthly rents tried: -RentStep, 0, RentStep, ..., MaxRentSteps * RentStep
MaxRentSteps == 3
\* down payment percents tried: 0, 50, ..., MaxDownSteps * 50
MaxDownSteps == 3

NumsOf(S) == {Num(i) : i \in S}

PurchasePrices == NumsOf({-12000, 0, 12000})
MonthlyRents == NumsOf({80 * k : k \in -1..MaxRentSteps})
DownPaymentPercents == NumsOf({50 * k : k \in 0..MaxDownSteps})
\* 1200 percent a year is 100 percent a month: the one nonzero rate whose
\* twelve-month compounding factor stays small as an exact fraction
InterestRates == NumsOf({0, 1200})
LoanTerms == NumsOf({0, 1})

InputSpace ==
    [ purchasePrice       : PurchasePrices,
      downPaymentPercent  : DownPaymentPercents,
      interestRate        : InterestRates,
      loanTermYears       : LoanTerms,
      monthlyRent         : MonthlyRents,
      annualTaxes         : NumsOf({0, 120}),
      annualInsurance     : NumsOf({0, 60}),
      monthlyHOA          : NumsOf({0, 10}),
      maintenancePercent  : NumsOf({0, 50}),
      otherMonthly        : NumsOf({0, 20}),
      closingCostsPercent : NumsOf({0, 25}),
      upfrontRepairs      : NumsOf({0, 500}) ]

NoInputs ==
    [ purchasePrice       |-> Num(0), downPaymentPercent  |-> Num(0),
      interestRate        |-> Num(0), loanTermYears       |-> Num(0),
      monthlyRent         |-> Num(0), annualTaxes         |-> Num(0),
      annualInsurance     |-> Num(0), monthlyHOA          |-> Num(0),
      maintenancePercent  |-> Num(0), otherMonthly        |-> Num(0),
      closingCostsPercent |-> Num(0), upfrontRepairs      |-> Num(0) ]

InputFields == DOMAIN NoInputs

-----------------------------------------------------------------------------
(* Specification of the engines: each engine is called once, on any input   *)
(* of InputSpace                                                            *)

InitEngine ==
    /\ inputs \in InputSpace
    /\ dealRoi = undefined
    /\ dealPart = undefined
    /\ elPresent = FALSE
    /\ elValue = <<>>
    /\ numRoi = undefined
    /\ numPart = undefined
    /\ PageIdle /\ HandlerIdle

\* rental-roi.js: const deal = computeDealFromInputs();
ComputeDealFromInputs ==
    /\ dealRoi = undefined
    /\ dealRoi' = computeDealFromInputs(inputs)
    /\ UNCHANGED <<inputs, dealPart, elPresent, elValue, numRoi, numPart>>
    /\ UNCHANGED <<pageVars, handlerVars>>

\* part_000: const res = computeDeal(inputs);
ComputeDeal ==
    /\ dealPart = undefined
    /\ dealPart' = computeDeal(inputs)
    /\ UNCHANGED <<inputs, dealRoi, elPresent, elValue, numRoi, numPart>>
    /\ UNCHANGED <<pageVars, handlerVars>>

NextEngine == ComputeDealFromInputs \/ ComputeDeal

SpecEngine == InitEngine /\ [][NextEngine]_vars

-----------------------------------------------------------------------------
(* Specification of asNumber: each asNumber is called once, on any field    *)
(* text up to MaxLen tokens                                                 *)

InitAsNumber ==
    /\ elPresent \in BOOLEAN
    /\ elValue \in Texts(MaxLen)
    /\ numRoi = undefined
    /\ numPart = undefined
    /\ inputs = NoInputs
    /\ dealRoi = undefined
    /\ dealPart = undefined
    /\ PageIdle /\ HandlerIdle

\* rental-roi.js: asNumber(id)
AsNumberRoi ==
    /\ numRoi = undefined
    /\ numRoi' = asNumber_roi(elPresent, elValue)
    /\ UNCHANGED <<elPresent, elValue, numPart, inputs, dealRoi, dealPart>>
    /\ UNCHANGED <<pageVars, handlerVars>>

\* part_000: asNumber(id)
AsNumberPart ==
    /\ numPart = undefined
    /\ numPart' = asNumber_part(elPresent, elValue)
    /\ UNCHANGED <<elPresent, elValue, numRoi, inputs, dealRoi, dealPart>>
    /\ UNCHANGED <<pageVars, handlerVars>>

NextAsNumber == AsNumberRoi \/ AsNumberPart

SpecAsNumber == InitAsNumber /\ [][NextAsNumber]_vars

-----------------------------------------------------------------------------
(* The amortization formula over a long term.                               *)
(* (1 + r)^n for n in the hundreds has too many digits for an exact         *)
(* fraction; the double Math.pow returns is one of its roundings. The       *)
(* payment is therefore enclosed: the power between two fixed-point         *)
(* bounds, the payment between the two bounds that follow from them, and    *)
(* the engine is run on values across that enclosure.                       *)

\* the unit of the fixed-point bounds of the power is 1 / PowScale
PowScale == 10000000
\* the unit of the bounds of 1 / (factor - 1) is 1 / QuotientScale
QuotientDigits == 6
QuotientScale == 1000000

\* x after k months of compounding at rn/rd a month, rounded down every month
RECURSIVE CompoundFloor(_, _, _, _)
CompoundFloor(x, rn, rd, k) ==
    IF k = 0 THEN x
    ELSE LET y == CompoundFloor(x, rn, rd, k - 1) IN y + ((y * rn) \div rd)

\* x after k months of compounding at rn/rd a month, rounded up every month
RECURSIVE CompoundCeil(_, _, _, _)
CompoundCeil(x, rn, rd, k) ==
    IF k = 0 THEN x
    ELSE LET y == CompoundCeil(x, rn, rd, k - 1) IN y + ((y * rn + rd - 1) \div rd)

\* a lower bound of PowScale * (1 + rn/rd)^k, a year of months at a time
RECURSIVE PowFloor(_, _, _)
PowFloor(rn, rd, k) ==
    IF k <= 12 THEN CompoundFloor(PowScale, rn, rd, k)
    ELSE LET x == PowFloor(rn, rd, k - 12)
         IN  IF x > 0 THEN CompoundFloor(x, rn, rd, 12) ELSE 0

\* an upper bound of PowScale * (1 + rn/rd)^k, a year of months at a time
RECURSIVE PowCeil(_, _, _)
PowCeil(rn, rd, k) ==
    IF k <= 12 THEN CompoundCeil(PowScale, rn, rd, k)
    ELSE LET x == PowCeil(rn, rd, k - 12)
         IN  IF x > 0 THEN CompoundCeil(x, rn, rd, 12) ELSE 0

\* <<quotient, remainder>> of N * 10^k divided by D, digit by digit
RECURSIVE DivDigits(_, _, _)
DivDigits(N, D, k) ==
    IF k = 0 THEN <<N \div D, N % D>>
    ELSE LET p == DivDigits(N, D, k - 1)
         IN  <<p[1] * 10 + ((p[2] * 10) \div D), (p[2] * 10) % D>>

\* the payment with the compounding factor forgotten: the interest of one
\* month
amortizedPayments_interestOnly(loanAmount, r, n) == {Mul(loanAmount, r)}

\* (loanAmount * r * factor) / (factor - 1) with factor = Math.pow(1 + r, n),
\* r > 0 and n >= 1 a whole number: the least and the greatest value of the
\* enclosure and the value half way. The quotient is loanAmount * r *
\* (1 + 1 / (factor - 1)).
amortizedPayments(loanAmount, r, n) ==
    LET factorLo == PowFloor(r.n, r.d, n)
        factorHi == PowCeil(r.n, r.d, n)
        tLo == DivDigits(PowScale, factorHi - PowScale, QuotientDigits)[1]
        tHi == DivDigits(PowScale, factorLo - PowScale, QuotientDigits)[1] + 1
        interest == Mul(loanAmount, r)
        payLo == Add(interest, Mul(interest, Rat(tLo, QuotientScale)))
        payHi == Add(interest, Mul(interest, Rat(tHi, QuotientScale)))
    IN  {payLo, Div(Add(payLo, payHi), Num(2)), payHi}

\* the values monthlyMortgage can take in computeDealFromInputs
monthlyMortgages_roi(loanAmount, interestRate, loanTermYears) ==
    LET nMonths == Mul(loanTermYears, Num(12))
        monthlyRate == IF Gt(interestRate, Num(0))
                       THEN Div(Div(interestRate, Num(100)), Num(12))
                       ELSE Num(0)
    IN  IF Gt(loanAmount, Num(0)) /\ Gt(nMonths, Num(0))
        THEN IF Gt(monthlyRate, Num(0))
             THEN amortizedPayments(loanAmount, monthlyRate, nMonths.n)
             ELSE {Div(loanAmount, nMonths)}
        ELSE {Num(0)}

\* the values monthlyMortgage can take in computeDeal
monthlyMortgages_part(loanAmount, interestRate, loanTermYears) ==
    LET r == Div(Div(interestRate, Num(100)), Num(12))
        n == Mul(loanTermYears, Num(12))
    IN  IF Gt(loanAmount, Num(0)) /\ Gt(interestRate, Num(0))
           /\ Gt(loanTermYears, Num(0))
        THEN amortizedPayments(loanAmount, r, n.n)
        ELSE {Num(0)}

\* the standard amortization scenario
StandardScenario ==
    [ purchasePrice       |-> Num(200000), downPaymentPercent  |-> Num(20),
      interestRate        |-> Num(6),      loanTermYears       |-> Num(30),
      monthlyRent         |-> Num(1800),   annualTaxes         |-> Num(2400),
      annualInsurance     |-> Num(1200),   monthlyHOA          |-> Num(0),
      maintenancePercent  |-> Num(10),     otherMonthly        |-> Num(0),
      closingCostsPercent |-> Num(3),      upfrontRepairs      |-> Num(5000) ]

\* the standard scenario and its neighbours in down payment, rate, term
\* and rent
LongTermSpace ==
    { [StandardScenario EXCEPT !.downPaymentPercent = dp, !.interestRate = rate,
                               !.loanTermYears = term, !.monthlyRent = rent] :
        dp \in NumsOf({0, 20, 100}), rate \in NumsOf({0, 6}),
        term \in NumsOf({15, 30}), rent \in NumsOf({1200, 1800, 2400}) }

InitLongTerm ==
    /\ inputs \in LongTermSpace
    /\ dealRoi = undefined
    /\ dealPart = undefined
    /\ elPresent = FALSE
    /\ elValue = <<>>
    /\ numRoi = undefined
    /\ numPart = undefined
    /\ PageIdle /\ HandlerIdle

\* rental-roi.js: const deal = computeDealFromInputs();
ComputeDealFromInputsLongTerm ==
    /\ dealRoi = undefined
    /\ LET downPaymentAmount ==
               downPaymentAmount_roi(inputs.purchasePrice, inputs.downPaymentPercent)
           loanAmount == loanAmount_roi(inputs.purchasePrice, downPaymentAmount)
       IN  \E monthlyMortgage \in
                 monthlyMortgages_roi(loanAmount, inputs.interestRate, inputs.loanTermYears) :
               dealRoi' = dealWithMortgage_roi(inputs, monthlyMortgage)
    /\ UNCHANGED <<inputs, dealPart, elPresent, elValue, numRoi, numPart>>
    /\ UNCHANGED <<pageVars, handlerVars>>

\* part_000: const res = computeDeal(inputs);
ComputeDealLongTerm ==
    /\ dealPart = undefined
    /\ LET downPaymentAmount ==
               downPaymentAmount_part(inputs.purchasePrice, inputs.downPaymentPercent)
           loanAmount == loanAmount_part(inputs.purchasePrice, downPaymentAmount)
       IN  \E monthlyMortgage \in
                 monthlyMortgages_part(loanAmount, inputs.interestRate, inputs.loanTermYears) :
               dealPart' = dealWithMortgage_part(inputs, monthlyMortgage)
    /\ UNCHANGED <<inputs, dealRoi, elPresent, elValue, numRoi, numPart>>
    /\ UNCHANGED <<pageVars, handlerVars>>

NextLongTerm == ComputeDealFromInputsLongTerm \/ ComputeDealLongTerm

SpecLongTerm == InitLongTerm /\ [][NextLongTerm]_vars

-----------------------------------------------------------------------------
(* The calculator page: what both scripts share.                            *)
(* The page is the calculator's page: every element the scripts look up     *)
(* by id exists.                                                            *)

\* the text of a display element: a fixed text, a formatted amount of
\* money, a formatted percentage
Text(t) == [text |-> t]
Money(x) == [money |-> x]
Percent(x) == [percent |-> x]

\* "—", the placeholder of a metric
Dash == Text("-")

\* x rounded to a whole number, halves up: Math.round
Math_round(x) ==
    IF isFinite(x) THEN Num((2 * x.n + x.d) \div (2 * x.d)) ELSE x

\* x rounded to a whole number, halves away from zero: the rounding of
\* toLocaleString with maximumFractionDigits 0
RoundHalfAway(x) ==
    IF isFinite(x)
    THEN Num(Sign(x) * ((2 * Abs(x.n) + x.d) \div (2 * x.d)))
    ELSE x

\* x.toFixed(1): x rounded to tenths, halves away from zero
toFixed1(x) ==
    IF isFinite(x) THEN Div(RoundHalfAway(Mul(x, Num(10))), Num(10)) ELSE x

\* the ids of the two status chips
ChipIds == {"copyStatus", "emailStatus"}

\* a status chip as the markup has it: no text, no variant class, hidden
ChipHidden == [textContent |-> "", variant |-> "", visible |-> FALSE]

\* the twelve numeric fields of the form, by element id, with the input each feeds
FieldOf ==
    [ purchasePrice       |-> "purchasePrice",      downPaymentPercent  |-> "downPayment",
      interestRate        |-> "interestRate",       loanTermYears       |-> "loanTerm",
      monthlyRent         |-> "monthlyRent",        annualTaxes         |-> "annualTaxes",
      annualInsurance     |-> "annualInsurance",    monthlyHOA          |-> "monthlyHOA",
      maintenancePercent  |-> "maintenancePercent", otherMonthly        |-> "otherMonthly",
      closingCostsPercent |-> "closingCostsPercent", upfrontRepairs     |-> "upfrontRepairs" ]

\* the form as the page's markup has it, which form.reset() goes back to; the
\* markup is not among the sources and is taken to preset an all-cash
\* purchase and nothing else
FormDefaults ==
    [ purchasePrice       |-> <<>>, downPayment    |-> <<"1", "0", "0">>,
      interestRate        |-> <<>>, loanTerm       |-> <<>>,
      monthlyRent         |-> <<>>, annualTaxes    |-> <<>>,
      annualInsurance     |-> <<>>, monthlyHOA     |-> <<>>,
      maintenancePercent  |-> <<>>, otherMonthly   |-> <<>>,
      closingCostsPercent |-> <<>>, upfrontRepairs |-> <<>>,
      userEmail           |-> <<>> ]

\* a form with a price, a rent and an email address typed in
FilledForm(price, rent, email) ==
    [FormDefaults EXCEPT !.purchasePrice = price, !.monthlyRent = rent, !.userEmail = email]

\* what the user types: a price and a rent above zero with an email address
\* or with a blank in its place, no price, a negative rent
Forms ==
    { FilledForm(<<"1", "0">>, <<"1">>, <<"a">>),
      FilledForm(<<"1", "0">>, <<"1">>, <<" ">>),
      FilledForm(<<>>, <<"1">>, <<"a">>),
      FilledForm(<<"1", "0">>, <<"-", "1">>, <<"a">>) }

\* setTimeout(f, delay) on a chip: one more pending timer. Timers of one
\* chip that are due at the same moment do the same thing at that moment,
\* so a chip's timers are kept as the set of the times left to them.
setTimeout(tm, id, delay) == [tm EXCEPT ![id] = @ \cup {delay}]

\* milliseconds the clock advances in one step
TickMs == 1000

\* what the last step did to its surroundings: what left the page ("none",
\* "writeText", "mailto") and which collaborator failed ("none", "clipboard",
\* "storage")
Effect(kind, failed) == [kind |-> kind, failed |-> failed]

-----------------------------------------------------------------------------
(* The page of src/tools/rental-roi.js *)

\* "auto-hide after 2 seconds"
HideDelay_roi == 2000

\* showStatusChip(id, message, variant), on ui = [chips, timers]
showStatusChip_roi(ui, id, message, variant) ==
    [ chips  |-> [ui.chips EXCEPT ![id] =
                    [ textContent |-> message,
                      variant     |-> IF variant = "ok" THEN "status-ok"
                                      ELSE IF variant = "error" THEN "status-error"
                                      ELSE "status-muted",
                      visible     |-> TRUE ]],
      timers |-> setTimeout(ui.timers, id, HideDelay_roi) ]

formatMoney_roi(val) == IF isNaN(val) THEN Dash ELSE Money(RoundHalfAway(val))
formatMoney0_roi(val) == formatMoney_roi(Math_round(val))
formatPercent_roi(val) == IF isNaN(val) THEN Dash ELSE Percent(toFixed1(val))

\* the neutral "awaiting inputs" state of the result elements
AwaitingInputs_roi ==
    [ cashFlowDisplay     |-> Dash, cocDisplay      |-> Dash,
      capRateDisplay      |-> Dash, expensesDisplay |-> Dash,
      cashInvestedDisplay |-> Dash, verdictTag      |-> Text("Awaiting inputs"),
      verdictBlock        |-> "tone-neutral" ]

\* updateUI(deal): the result elements after it
updateUI(deal) ==
    IF deal = null THEN AwaitingInputs_roi
    ELSE [ cashFlowDisplay     |-> formatMoney0_roi(deal.monthlyCashFlow),
           cocDisplay          |-> formatPercent_roi(deal.cashOnCash),
           capRateDisplay      |-> formatPercent_roi(deal.capRate),
           expensesDisplay     |-> formatMoney0_roi(deal.totalMonthlyExpenses),
           cashInvestedDisplay |-> formatMoney0_roi(deal.totalCashInvested),
           verdictTag          |-> Text(deal.verdictLabel),
           verdictBlock        |-> IF deal.verdictTone = "strong" THEN "tone-strong"
                                   ELSE IF deal.verdictTone = "bad" THEN "tone-bad"
                                   ELSE IF deal.verdictTone = "weak" THEN "tone-weak"
                                   ELSE "tone-neutral" ]

\* the twelve asNumber calls of computeDealFromInputs
readInputs_roi(f) == [k \in InputFields |-> asNumber_roi(TRUE, f[FieldOf[k]])]

\* buildDealSummaryText(deal, options): the report on deal
buildDealSummaryText(deal, options) == [report |-> deal, options |-> options]

\* the three checkboxes of the report, as the handlers read them
ReportOptions ==
    [includeBreakdown |-> TRUE, includeVerdictNotes |-> TRUE, includeStrategyTips |-> TRUE]

-----------------------------------------------------------------------------
(* The page of src/unnamed/part_000 *)

\* setTimeout(..., 3000)
HideDelay_part == 3000

\* showStatusChip(id, message, variant), on ui = [chips, timers]
showStatusChip_part(ui, id, message, variant) ==
    [ chips  |-> [ui.chips EXCEPT ![id] =
                    [ textContent |-> message,
                      variant     |-> IF variant = "error" THEN "status-error"
                                      ELSE "status-ok",
                      visible     |-> TRUE ]],
      timers |-> setTimeout(ui.timers, id, HideDelay_part) ]

formatMoney_part(val) == Money(RoundHalfAway(IF isNaN(val) THEN Num(0) ELSE val))
formatPercent_part(val) == Percent(toFixed1(IF isNaN(val) THEN Num(0) ELSE val))

\* the result elements as the reset handler leaves them
Placeholders_part ==
    [ cashFlowDisplay     |-> Dash, cocDisplay      |-> Dash,
      capRateDisplay      |-> Dash, expensesDisplay |-> Dash,
      cashInvestedDisplay |-> Dash, verdictTag      |-> Text("Awaiting inputs"),
      verdictBlock        |-> "" ]

\* the result elements as handleCalculate leaves them
displayOf_part(res) ==
    [ cashFlowDisplay     |-> formatMoney_part(res.monthlyCashFlow),
      cocDisplay          |-> IF Gt(res.cashOnCashReturn, Num(0))
                              THEN formatPercent_part(res.cashOnCashReturn) ELSE Dash,
      capRateDisplay      |-> IF Gt(res.capRate, Num(0))
                              THEN formatPercent_part(res.capRate) ELSE Dash,
      expensesDisplay     |-> formatMoney_part(res.totalMonthlyExpenses),
      cashInvestedDisplay |-> formatMoney_part(res.totalCashInvested),
      verdictTag          |-> Text(res.verdictLabel),
      verdictBlock        |-> IF res.verdictTone = "strong" THEN "tone-strong"
                              ELSE IF res.verdictTone = "ok" THEN "tone-ok"
                              ELSE IF res.verdictTone = "weak" THEN "tone-weak"
                              ELSE "tone-neutral" ]

\* a JavaScript string, by its tokens
Str(t) == [str |-> t]

\* the inputs object of handleCalculate: the trimmed email and the twelve
\* asNumber calls
readInputs_part(f) ==
    [k \in InputFields \cup {"userEmail"} |->
        IF k = "userEmail" THEN Str(trim(f.userEmail))
        ELSE asNumber_part(TRUE, f[FieldOf[k]])]

\* buildDealSummary(propertyLabel, res, inputs): the report on res
buildDealSummary(propertyLabel, res, in) ==
    [report |-> res, propertyLabel |-> propertyLabel, inputs |-> [k \in InputFields |-> in[k]]]

\* a test for a summary that was never set, in the place of !summary
noSummary_onlyUndefined(summary) == summary = undefined

\* !summary
noSummary(summary) == summary = undefined \/ summary = Str(<<>>)

\* localStorage: no entry; an entry; a storage whose access throws
Absent == [entry |-> "absent"]
Stored(raw) == [entry |-> "stored", raw |-> raw]
Unreadable == [entry |-> "throws"]

\* what an entry can hold: the empty string, a text that is not JSON, the
\* JSON text of a value
EmptyRaw == [kind |-> "empty"]
GarbageRaw == [kind |-> "garbage"]
JsonText(v) == [kind |-> "json", value |-> v]

\* JSON.stringify of an object of numbers and strings: a number that is not
\* finite becomes null
JSON_stringify(obj) ==
    JsonText([object |-> [k \in DOMAIN obj |->
                            IF "kind" \in DOMAIN obj[k] /\ ~isFinite(obj[k])
                            THEN null ELSE obj[k]]])

\* what a call that threw hands to its caller
Thrown == [thrown |-> TRUE]

\* loadLastInputs() without its try and catch
loadLastInputs_withoutCatch(st) ==
    IF st = Unreadable THEN Thrown
    ELSE IF st = Absent \/ st.raw = EmptyRaw THEN null
    ELSE IF st.raw = GarbageRaw THEN Thrown
    ELSE st.raw.value

\* loadLastInputs()
loadLastInputs(st) ==
    IF st = Unreadable THEN null
    ELSE IF st = Absent \/ st.raw = EmptyRaw THEN null
    ELSE IF st.raw = GarbageRaw THEN null
    ELSE st.raw.value

\* last.k
Property(last, k) ==
    IF "object" \in DOMAIN last /\ k \in DOMAIN last.object THEN last.object[k]
    ELSE undefined

\* the decimal numeral of a whole number
RECURSIVE NaturalToText(_)
NaturalToText(i) ==
    IF i < 10 THEN <<IF i = 0 THEN "0" ELSE IF i = 1 THEN "1" ELSE "a">>
    ELSE NaturalToText(i \div 10) \o NaturalToText(i % 10)

\* String(val) as el.value = val does it, for a string or a whole number
String(val) ==
    IF "str" \in DOMAIN val THEN val.str
    ELSE IF val.n < 0 THEN <<"-">> \o NaturalToText(-val.n)
    ELSE NaturalToText(val.n)

\* setValue(id, val), on the form f
setValue(f, id, val) ==
    IF val = undefined \/ val = null THEN f ELSE [f EXCEPT ![id] = String(val)]

\* x || ""
orEmpty(x) == IF x = undefined \/ x = null \/ x = Str(<<>>) THEN Str(<<>>) ELSE x

\* "Restore last inputs if available": the form after it
RECURSIVE restoreFields(_, _, _)
restoreFields(f, last, ks) ==
    IF ks = {} THEN f
    ELSE LET k == CHOOSE x \in ks : TRUE
         IN  restoreFields(setValue(f, FieldOf[k], Property(last, k)), last, ks \ {k})

restoreLastInputs(f, last) ==
    IF last = null \/ last = Num(0) \/ last = Str(<<>>) THEN f
    ELSE restoreFields(setValue(f, "userEmail", orEmpty(Property(last, "userEmail"))),
                       last, InputFields)

-----------------------------------------------------------------------------
(* Specification of the page: it loads, then the user types and clicks      *)

\* most clipboard writes not settled yet
MaxCopies == 1

\* localStorage's entry when the page loads
StorageStates ==
    {Absent, Unreadable, Stored(EmptyRaw), Stored(GarbageRaw), Stored(JsonText(null)),
     Stored(JsonText(Num(1)))}
        \cup {Stored(JSON_stringify(readInputs_part(f))) : f \in Forms}

\* the page as the markup gives it, before DOMContentLoaded
PageBeforeLoad ==
    /\ script \in {"roi", "part"}
    /\ loaded = "no"
    /\ lastComputed = undefined
    /\ lastSummary = undefined
    /\ display = Placeholders_part
    /\ chips = [id \in ChipIds |-> ChipHidden]
    /\ timers = [id \in ChipIds |-> {}]
    /\ pendingCopy = 0
    /\ effect = Effect("none", "none")
    /\ calculated = FALSE

EnginesIdle ==
    /\ elPresent = FALSE
    /\ elValue = <<>>
    /\ numRoi = undefined
    /\ numPart = undefined
    /\ inputs = NoInputs
    /\ dealRoi = undefined
    /\ dealPart = undefined

\* rental-roi.js: the DOMContentLoaded handler
DOMContentLoadedRoi ==
    /\ script = "roi" /\ loaded = "no"
    /\ lastComputed' = null
    /\ display' = updateUI(null)
    /\ loaded' = "wired"
    /\ effect' = Effect("none", "none")
    /\ UNCHANGED <<script, form, lastSummary, chips, timers, pendingCopy, storage, calculated>>
    /\ UNCHANGED <<engineVars, handlerVars>>

\* part_000: the DOMContentLoaded handler. An exception ends it where it
\* is thrown.
DOMContentLoadedPart ==
    /\ script = "part" /\ loaded = "no"
    /\ LET last == loadLastInputs(storage)
       IN  IF last = Thrown
           THEN loaded' = "threw" /\ form' = form
           ELSE loaded' = "wired" /\ form' = restoreLastInputs(form, last)
    /\ effect' = Effect("none", "none")
    /\ UNCHANGED <<script, lastComputed, lastSummary, display, chips, timers, pendingCopy,
                   storage, calculated>>
    /\ UNCHANGED <<engineVars, handlerVars>>

\* the user edits the price, the rent or the email address
Type ==
    /\ loaded = "wired"
    /\ \E f \in Forms : f # form /\ form' = f
    /\ effect' = Effect("none", "none")
    /\ UNCHANGED <<script, loaded, lastComputed, lastSummary, display, chips, timers,
                   pendingCopy, storage, calculated>>
    /\ UNCHANGED <<engineVars, handlerVars>>

\* the hide delay passes with no click in between: every pending timer fires
Elapse ==
    /\ loaded = "wired"
    /\ \E id \in ChipIds : timers[id] # {}
    /\ chips' = [id \in ChipIds |->
                    IF timers[id] # {} THEN [chips[id] EXCEPT !.visible = FALSE]
                    ELSE chips[id]]
    /\ timers' = [id \in ChipIds |-> {}]
    /\ effect' = Effect("none", "none")
    /\ UNCHANGED <<script, loaded, form, lastComputed, lastSummary, display, pendingCopy,
                   storage, calculated>>
    /\ UNCHANGED <<engineVars, handlerVars>>

\* rental-roi.js: the submit handler of the form
SubmitRoi ==
    /\ script = "roi" /\ loaded = "wired"
    /\ LET deal == computeDealFromInputs(readInputs_roi(form))
           ui == showStatusChip_roi([chips |-> chips, timers |-> timers],
                                    "copyStatus", "Add price & rent", "error")
       IN  IF deal = null
           THEN /\ lastComputed' = null
                /\ display' = updateUI(null)
                /\ chips' = ui.chips /\ timers' = ui.timers
                /\ calculated' = calculated
           ELSE /\ lastComputed' = deal
                /\ display' = updateUI(deal)
                /\ UNCHANGED <<chips, timers>>
                /\ calculated' = TRUE
    /\ effect' = Effect("none", "none")
    /\ UNCHANGED <<script, loaded, form, lastSummary, pendingCopy, storage>>
    /\ UNCHANGED <<engineVars, handlerVars>>

\* rental-roi.js: the click handler of copyBtn, up to its await
CopyClickRoi ==
    /\ script = "roi" /\ loaded = "wired"
    /\ pendingCopy < MaxCopies
    /\ IF lastComputed = null
       THEN LET ui == showStatusChip_roi([chips |-> chips, timers |-> timers],
                                         "copyStatus", "Calculate first", "error")
            IN  /\ chips' = ui.chips /\ timers' = ui.timers
                /\ pendingCopy' = pendingCopy
                /\ effect' = Effect("none", "none")
       ELSE /\ pendingCopy' = pendingCopy + 1
            /\ effect' = Effect("writeText", "none")
            /\ UNCHANGED <<chips, timers>>
    /\ UNCHANGED <<script, loaded, form, lastComputed, lastSummary, display, storage, calculated>>
    /\ UNCHANGED <<engineVars, handlerVars>>

\* rental-roi.js: the click handler of copyBtn, after its await: the write
\* is done or rejected
CopySettledRoi ==
    /\ script = "roi" /\ loaded = "wired"
    /\ pendingCopy > 0
    /\ pendingCopy' = pendingCopy - 1
    /\ \E rejected \in BOOLEAN :
        LET ui == IF rejected
                  THEN showStatusChip_roi([chips |-> chips, timers |-> timers],
                                          "copyStatus", "Copy failed", "error")
                  ELSE showStatusChip_roi([chips |-> chips, timers |-> timers],
                                          "copyStatus", "Copied!", "ok")
        IN  /\ chips' = ui.chips /\ timers' = ui.timers
            /\ effect' = Effect("none",
                                IF rejected THEN "clipboard" ELSE "none")
    /\ UNCHANGED <<script, loaded, form, lastComputed, lastSummary, display, storage, calculated>>
    /\ UNCHANGED <<engineVars, handlerVars>>

\* rental-roi.js: the click handler of emailBtn
EmailClickRoi ==
    /\ script = "roi" /\ loaded = "wired"
    /\ LET email == trim(form.userEmail)
           here == [chips |-> chips, timers |-> timers]
           ui == IF lastComputed = null
                 THEN showStatusChip_roi(here, "emailStatus", "Calculate first", "error")
                 ELSE IF email = <<>>
                 THEN showStatusChip_roi(here, "emailStatus", "Enter an email", "error")
                 ELSE showStatusChip_roi(here, "emailStatus", "Email draft opened", "ok")
       IN  /\ chips' = ui.chips /\ timers' = ui.timers
           /\ effect' = Effect(IF lastComputed # null /\ email # <<>> THEN "mailto" ELSE "none",
                               "none")
    /\ UNCHANGED <<script, loaded, form, lastComputed, lastSummary, display, pendingCopy,
                   storage, calculated>>
    /\ UNCHANGED <<engineVars, handlerVars>>

\* rental-roi.js: the click handler of resetBtn
ResetRoi ==
    /\ script = "roi" /\ loaded = "wired"
    /\ form' = FormDefaults
    /\ lastComputed' = null
    /\ display' = updateUI(null)
    /\ LET ui == showStatusChip_roi(
                    showStatusChip_roi([chips |-> chips, timers |-> timers],
                                       "copyStatus", "", "muted"),
                    "emailStatus", "", "muted")
       IN  chips' = ui.chips /\ timers' = ui.timers
    /\ calculated' = FALSE
    /\ effect' = Effect("none", "none")
    /\ UNCHANGED <<script, loaded, lastSummary, pendingCopy, storage>>
    /\ UNCHANGED <<engineVars, handlerVars>>

\* part_000: handleCalculate, the handler of the calculate button and of
\* the form's submit. localStorage.setItem may throw.
HandleCalculatePart ==
    /\ script = "part" /\ loaded = "wired"
    /\ LET in == readInputs_part(form)
           res == computeDeal(in)
       IN  /\ display' = displayOf_part(res)
           /\ lastSummary' = buildDealSummary(Str(<<>>), res, in)
           /\ \E throws \in (IF storage = Unreadable THEN {TRUE} ELSE BOOLEAN) :
                IF throws
                THEN storage' = storage /\ effect' = Effect("none", "storage")
                ELSE /\ storage' = Stored(JSON_stringify(in))
                     /\ effect' = Effect("none", "none")
    /\ calculated' = TRUE
    /\ UNCHANGED <<script, loaded, form, lastComputed, chips, timers, pendingCopy>>
    /\ UNCHANGED <<engineVars, handlerVars>>

\* part_000: the click handler of copyBtn, up to its await
CopyClickPart ==
    /\ script = "part" /\ loaded = "wired"
    /\ pendingCopy < MaxCopies
    /\ IF noSummary(lastSummary)
       THEN LET ui == showStatusChip_part([chips |-> chips, timers |-> timers],
                                          "copyStatus", "Run the calculator first.", "error")
            IN  /\ chips' = ui.chips /\ timers' = ui.timers
                /\ pendingCopy' = pendingCopy
                /\ effect' = Effect("none", "none")
       ELSE /\ pendingCopy' = pendingCopy + 1
            /\ effect' = Effect("writeText", "none")
            /\ UNCHANGED <<chips, timers>>
    /\ UNCHANGED <<script, loaded, form, lastComputed, lastSummary, display, storage, calculated>>
    /\ UNCHANGED <<engineVars, handlerVars>>

\* part_000: the click handler of copyBtn, after its await: the write is
\* done or rejected
CopySettledPart ==
    /\ script = "part" /\ loaded = "wired"
    /\ pendingCopy > 0
    /\ pendingCopy' = pendingCopy - 1
    /\ \E rejected \in BOOLEAN :
        LET ui == IF rejected
                  THEN showStatusChip_part([chips |-> chips, timers |-> timers],
                                           "copyStatus", "Could not copy to clipboard.", "error")
                  ELSE showStatusChip_part([chips |-> chips, timers |-> timers],
                                           "copyStatus", "Copied deal summary.", "ok")
        IN  /\ chips' = ui.chips /\ timers' = ui.timers
            /\ effect' = Effect("none",
                                IF rejected THEN "clipboard" ELSE "none")
    /\ UNCHANGED <<script, loaded, form, lastComputed, lastSummary, display, storage, calculated>>
    /\ UNCHANGED <<engineVars, handlerVars>>

\* part_000: the click handler of emailBtn
EmailClickPart ==
    /\ script = "part" /\ loaded = "wired"
    /\ LET email == trim(form.userEmail)
           here == [chips |-> chips, timers |-> timers]
           ui == IF noSummary(lastSummary)
                 THEN showStatusChip_part(here, "emailStatus", "Run the calculator first.",
                                          "error")
                 ELSE IF email = <<>>
                 THEN showStatusChip_part(here, "emailStatus", "Add an email address above.",
                                          "error")
                 ELSE showStatusChip_part(here, "emailStatus", "Opening email draft", "ok")
       IN  /\ chips' = ui.chips /\ timers' = ui.timers
           /\ effect' = Effect(IF ~noSummary(lastSummary) /\ email # <<>> THEN "mailto"
                               ELSE "none",
                               "none")
    /\ UNCHANGED <<script, loaded, form, lastComputed, lastSummary, display, pendingCopy,
                   storage, calculated>>
    /\ UNCHANGED <<engineVars, handlerVars>>

\* part_000: the click handler of resetBtn
ResetPart ==
    /\ script = "part" /\ loaded = "wired"
    /\ form' = FormDefaults
    /\ lastSummary' = Str(<<>>)
    /\ display' = Placeholders_part
    /\ calculated' = FALSE
    /\ effect' = Effect("none", "none")
    /\ UNCHANGED <<script, loaded, lastComputed, chips, timers, pendingCopy, storage>>
    /\ UNCHANGED <<engineVars, handlerVars>>

\* the page opens with the form as the markup has it and nothing stored
InitPage ==
    /\ PageBeforeLoad
    /\ form = FormDefaults
    /\ storage = Absent
    /\ EnginesIdle /\ HandlerIdle

NextPage ==
    \/ DOMContentLoadedRoi \/ DOMContentLoadedPart
    \/ Type \/ Elapse
    \/ SubmitRoi \/ CopyClickRoi \/ CopySettledRoi \/ EmailClickRoi \/ ResetRoi
    \/ HandleCalculatePart \/ CopyClickPart \/ CopySettledPart \/ EmailClickPart \/ ResetPart

SpecPage == InitPage /\ [][NextPage]_vars

-----------------------------------------------------------------------------
(* Specification of the page load: the page opens with any form the browser *)
(* restores and anything in localStorage                                    *)

InitLoad ==
    /\ PageBeforeLoad
    /\ form \in Forms \cup {FormDefaults}
    /\ storage \in StorageStates
    /\ EnginesIdle /\ HandlerIdle

NextLoad == DOMContentLoadedRoi \/ DOMContentLoadedPart

SpecLoad == InitLoad /\ [][NextLoad]_vars

-----------------------------------------------------------------------------
(* Specification of showStatusChip: it is called at any moment, with any    *)
(* message the handlers show, while the clock runs                          *)

\* the messages and variants the handlers of rental-roi.js show
ChipMessages_roi ==
    { <<"Add price & rent", "error">>, <<"Copied!", "ok">>, <<"", "muted">> }

\* the messages and variants the handlers of part_000 show
ChipMessages_part ==
    { <<"Run the calculator first.", "error">>, <<"Copied deal summary.", "ok">> }

InitChip ==
    /\ PageBeforeLoad
    /\ form = FormDefaults
    /\ storage = Absent
    /\ EnginesIdle /\ HandlerIdle

\* rental-roi.js: one call of showStatusChip
ShowStatusChipRoi ==
    /\ script = "roi"
    /\ \E id \in ChipIds, m \in ChipMessages_roi :
        /\ LET ui == showStatusChip_roi([chips |-> chips, timers |-> timers], id, m[1], m[2])
           IN  chips' = ui.chips /\ timers' = ui.timers
    /\ effect' = Effect("none", "none")
    /\ UNCHANGED <<script, loaded, form, lastComputed, lastSummary, display, pendingCopy,
                   storage, calculated>>
    /\ UNCHANGED <<engineVars, handlerVars>>

\* part_000: one call of showStatusChip
ShowStatusChipPart ==
    /\ script = "part"
    /\ \E id \in ChipIds, m \in ChipMessages_part :
        /\ LET ui == showStatusChip_part([chips |-> chips, timers |-> timers], id, m[1], m[2])
           IN  chips' = ui.chips /\ timers' = ui.timers
    /\ effect' = Effect("none", "none")
    /\ UNCHANGED <<script, loaded, form, lastComputed, lastSummary, display, pendingCopy,
                   storage, calculated>>
    /\ UNCHANGED <<engineVars, handlerVars>>

\* TickMs pass; no timer is due
Tick ==
    /\ \E id \in ChipIds : timers[id] # {}
    /\ \A id \in ChipIds : \A left \in timers[id] : left >= TickMs
    /\ timers' = [id \in ChipIds |-> {left - TickMs : left \in timers[id]}]
    /\ effect' = Effect("none", "none")
    /\ UNCHANGED <<script, loaded, form, lastComputed, lastSummary, display, chips,
                   pendingCopy, storage, calculated>>
    /\ UNCHANGED <<engineVars, handlerVars>>

\* the callback of a timer that is due: el.classList.remove("visible")
TimerFires ==
    /\ \E id \in ChipIds :
        /\ \E left \in timers[id] : left < TickMs
        /\ chips' = [chips EXCEPT ![id].visible = FALSE]
        /\ timers' = [timers EXCEPT ![id] = {left \in @ : left >= TickMs}]
    /\ effect' = Effect("none", "none")
    /\ UNCHANGED <<script, loaded, form, lastComputed, lastSummary, display, pendingCopy,
                   storage, calculated>>
    /\ UNCHANGED <<engineVars, handlerVars>>

NextChip == ShowStatusChipRoi \/ ShowStatusChipPart \/ Tick \/ TimerFires

SpecChip == InitChip /\ [][NextChip]_vars

-----------------------------------------------------------------------------
(* part_000: the subscription handler. One request is handled; the handler *)
(* is an async function, so each await is a step of its own                *)

\* an object, by its own properties
Object(props) == [object |-> props]

\* the object without properties
EmptyObject == Object([k \in {} |-> undefined])

\* req.method
Methods == {"GET", "POST", "PUT", "DELETE", "HEAD"}

\* req.body: none (undefined or null, as the platform hands it over), a text,
\* an object without email, an object whose email is empty, blank or an address
Bodies ==
    { undefined, null, Str(<<"a">>), EmptyObject }
        \cup { Object([email |-> Str(e)]) : e \in {<<>>, <<" ">>, <<"a">>, <<"a", "a">>} }

Requests == [method : Methods, body : Bodies]

\* what the subscription service answers: a status and a body that is JSON
\* or is not
UpstreamResponses == [status : {201, 400, 429, 500}, json : BOOLEAN]

\* response.ok
ok(response) == response.status \in 200..299

\* const { email } = req.body;
emailOf(body) ==
    IF body = undefined \/ body = null THEN Thrown ELSE Property(body, "email")

\* !email
noEmail(email) == email = undefined \/ email = null \/ email = Str(<<>>)

\* res.status(code).json(...)
respond(code) == Append(sent, code)

InitHandler ==
    /\ req \in Requests
    /\ upstream = undefined
    /\ pc = "start"
    /\ sent = <<>>
    /\ contacted = 0
    /\ PageIdle /\ EnginesIdle

\* the handler from its first line to the first await: the method check, the
\* destructuring of req.body, the email check and the call of fetch
HandlerStarts ==
    /\ pc = "start"
    /\ IF req.method # "POST"
       THEN sent' = respond(405) /\ pc' = "done" /\ contacted' = contacted
       ELSE IF emailOf(req.body) = Thrown
       THEN sent' = sent /\ pc' = "threw" /\ contacted' = contacted
       ELSE IF noEmail(emailOf(req.body))
       THEN sent' = respond(400) /\ pc' = "done" /\ contacted' = contacted
       ELSE sent' = sent /\ pc' = "fetching" /\ contacted' = contacted + 1
    /\ UNCHANGED <<req, upstream>>
    /\ UNCHANGED <<engineVars, pageVars>>

\* await fetch(...) settles: it rejects, and the catch block answers 500, or
\* it resolves with a response and response.json() is called
FetchSettles ==
    /\ pc = "fetching"
    /\ \E outcome \in {Thrown} \cup UpstreamResponses :
        /\ upstream' = outcome
        /\ IF outcome = Thrown
           THEN sent' = respond(500) /\ pc' = "done"
           ELSE sent' = sent /\ pc' = "reading"
    /\ UNCHANGED <<req, contacted>>
    /\ UNCHANGED <<engineVars, pageVars>>

\* await response.json() settles: it rejects, and the catch block answers 500,
\* or it resolves and the handler answers by response.ok
JsonSettles ==
    /\ pc = "reading"
    /\ sent' = IF ~upstream.json THEN respond(500)
               ELSE IF ~ok(upstream) THEN respond(400)
               ELSE respond(200)
    /\ pc' = "done"
    /\ UNCHANGED <<req, upstream, contacted>>
    /\ UNCHANGED <<engineVars, pageVars>>

NextHandler == HandlerStarts \/ FetchSettles \/ JsonSettles

SpecHandler == InitHandler /\ [][NextHandler]_vars

-----------------------------------------------------------------------------
(* Vocabulary of the properties *)

\* twelve finite numbers, none negative
NonNegativeInput(in) == \A f \in InputFields : isFinite(in[f]) /\ Ge(in[f], Num(0))

\* an input the engine is meant for: twelve finite numbers, none negative,
\* with a price and a rent above zero
ValidInput(in) ==
    /\ NonNegativeInput(in)
    /\ Gt(in.purchasePrice, Num(0))
    /\ Gt(in.monthlyRent, Num(0))

\* computeDealFromInputs has returned an object
RoiReturned == dealRoi # undefined /\ dealRoi # null
\* computeDeal has returned
PartReturned == dealPart # undefined

-----------------------------------------------------------------------------
(* C1 - C6 *)

\* C1: for every input with purchasePrice <= 0 or monthlyRent <= 0 the engine
\* returns the insufficient-data error (null) and no metrics object, in both
\* scripts.
C1_InsufficientDataBoth ==
    (Le(inputs.purchasePrice, Num(0)) \/ Le(inputs.monthlyRent, Num(0)))
        => /\ dealRoi # undefined => dealRoi = null
           /\ dealPart # undefined => dealPart = null

\* The four verdicts of the specification, by the label each script shows.
\* rental-roi.js has no label for Decent and two for thin cash flow; both
\* of those are read as Borderline.
VerdictOf(label) ==
    CASE label = "Strong on paper" -> "Strong"
      [] label = "Decent, stress-test it" -> "Decent"
      [] label = "Negative cash flow - be cautious" -> "Negative"
      [] label = "Borderline - cash flow is thin" -> "Borderline"
      [] label = "Tight cash flow - verify numbers" -> "Borderline"
      [] label = "Barely cash-flow positive" -> "Borderline"

\* the first-match rule of the specification
FirstMatchVerdict(monthlyCashFlow, cashOnCashReturnPercent) ==
    IF Gt(monthlyCashFlow, Num(0)) /\ Ge(cashOnCashReturnPercent, Num(12)) THEN "Strong"
    ELSE IF Ge(monthlyCashFlow, Num(0)) /\ Ge(cashOnCashReturnPercent, Num(8))
         THEN "Decent"
    ELSE IF Lt(monthlyCashFlow, Num(0)) THEN "Negative"
    ELSE "Borderline"

\* C2: for every valid input the verdict is the first match of
\* Strong (cash flow > 0, cash-on-cash >= 12), Decent (cash flow >= 0,
\* cash-on-cash >= 8), Negative (cash flow < 0), Borderline, in both scripts.
C2_VerdictFirstMatchBoth ==
    ValidInput(inputs)
        => /\ RoiReturned =>
                VerdictOf(dealRoi.verdictLabel)
                    = FirstMatchVerdict(dealRoi.monthlyCashFlow, dealRoi.cashOnCash)
           /\ PartReturned =>
                VerdictOf(dealPart.verdictLabel)
                    = FirstMatchVerdict(dealPart.monthlyCashFlow, dealPart.cashOnCashReturn)

\* C3: for every valid input with loanAmount > 0, loanTermYears > 0 and
\* interestRate = 0, monthlyMortgagePayment = loanAmount / (loanTermYears * 12),
\* in both scripts.
C3_ZeroInterestPaymentBoth ==
    (ValidInput(inputs) /\ inputs.interestRate = Num(0) /\ Gt(inputs.loanTermYears, Num(0)))
        => /\ (RoiReturned /\ Gt(dealRoi.loanAmount, Num(0))) =>
                dealRoi.monthlyMortgage
                    = Div(dealRoi.loanAmount, Mul(inputs.loanTermYears, Num(12)))
           /\ (PartReturned /\ Gt(dealPart.loanAmount, Num(0))) =>
                dealPart.monthlyMortgage
                    = Div(dealPart.loanAmount, Mul(inputs.loanTermYears, Num(12)))

\* C4: for every valid input with totalCashInvested = 0 the returned
\* cash-on-cash return is 0, and no returned metric is NaN or infinite, in
\* both scripts.
C4_NoNaNBoth ==
    ValidInput(inputs)
        => /\ RoiReturned =>
                /\ dealRoi.totalCashInvested = Num(0) => dealRoi.cashOnCash = Num(0)
                /\ \A f \in NumericFields_roi : isFinite(dealRoi[f])
           /\ PartReturned =>
                /\ dealPart.totalCashInvested = Num(0) => dealPart.cashOnCashReturn = Num(0)
                /\ \A f \in ReturnedFields_part : isFinite(dealPart[f])

\* C5: every value asNumber hands on is a finite number that is not negative,
\* in both scripts.
C5_AsNumberNonNegativeFiniteBoth ==
    /\ numRoi # undefined => (isFinite(numRoi) /\ Ge(numRoi, Num(0)))
    /\ numPart # undefined => (isFinite(numPart) /\ Ge(numPart, Num(0)))

\* C6: for every input (twelve finite numbers, none negative) on which an
\* engine computes a loan amount, the loan amount is
\* max(purchasePrice - downPaymentAmount, 0), so never negative, also when
\* downPaymentPercent exceeds 100, in both scripts.
C6_LoanAmountFloorBoth ==
    NonNegativeInput(inputs) =>
    /\ RoiReturned =>
         /\ dealRoi.loanAmount
              = Math_max(Sub(inputs.purchasePrice, dealRoi.downPaymentAmount), Num(0))
         /\ Ge(dealRoi.loanAmount, Num(0))
    /\ PartReturned =>
         /\ dealPart.loanAmount
              = Math_max(Sub(inputs.purchasePrice, dealPart.downPaymentAmount), Num(0))
         /\ Ge(dealPart.loanAmount, Num(0))

-----------------------------------------------------------------------------
(* C7 - C10 *)

\* the six components of the monthly expenses, from the inputs and a mortgage
\* payment
SumOfSix(monthlyMortgagePayment) ==
    Add(monthlyMortgagePayment,
        Add(Div(inputs.annualTaxes, Num(12)),
            Add(Div(inputs.annualInsurance, Num(12)),
                Add(inputs.monthlyHOA,
                    Add(Div(Mul(inputs.monthlyRent, inputs.maintenancePercent), Num(100)),
                        inputs.otherMonthly)))))

\* C7: for every valid input totalMonthlyExpenses is the sum of the mortgage
\* payment, annualTaxes/12, annualInsurance/12, monthlyHOA,
\* monthlyRent * maintenanceVacancyPercent / 100 and otherMonthlyExpenses, in
\* both scripts.
C7_ExpensesSumOfSix ==
    ValidInput(inputs)
        => /\ RoiReturned =>
                /\ dealRoi.totalMonthlyExpenses = SumOfSix(dealRoi.monthlyMortgage)
                /\ dealRoi.monthlyTaxes = Div(inputs.annualTaxes, Num(12))
                /\ dealRoi.monthlyInsurance = Div(inputs.annualInsurance, Num(12))
                /\ dealRoi.maintenanceVacancy
                     = Div(Mul(inputs.monthlyRent, inputs.maintenancePercent), Num(100))
           /\ PartReturned =>
                /\ dealPart.totalMonthlyExpenses = SumOfSix(dealPart.monthlyMortgage)
                /\ dealPart.monthlyTaxes = Div(inputs.annualTaxes, Num(12))
                /\ dealPart.monthlyInsurance = Div(inputs.annualInsurance, Num(12))
                /\ dealPart.maintVacancy
                     = Div(Mul(inputs.monthlyRent, inputs.maintenancePercent), Num(100))

\* both engines have returned metrics for a valid input whose six expense
\* components are all above zero
C7_Witness ==
    /\ ValidInput(inputs) /\ RoiReturned /\ PartReturned
    /\ Gt(dealRoi.monthlyMortgage, Num(0)) /\ Gt(dealPart.monthlyMortgage, Num(0))
    /\ Gt(inputs.annualTaxes, Num(0)) /\ Gt(inputs.annualInsurance, Num(0))
    /\ Gt(inputs.monthlyHOA, Num(0)) /\ Gt(inputs.maintenancePercent, Num(0))
    /\ Gt(inputs.otherMonthly, Num(0))

\* C8: for every valid input monthlyCashFlow = monthlyRent - totalMonthlyExpenses
\* and annualCashFlow = 12 * monthlyCashFlow, with no floor at zero: when the
\* expenses exceed the rent both are negative. Both scripts.
C8_CashFlowNoFloor ==
    ValidInput(inputs)
        => /\ RoiReturned =>
                /\ dealRoi.monthlyCashFlow
                     = Sub(inputs.monthlyRent, dealRoi.totalMonthlyExpenses)
                /\ dealRoi.annualCashFlow = Mul(Num(12), dealRoi.monthlyCashFlow)
                /\ Gt(dealRoi.totalMonthlyExpenses, inputs.monthlyRent)
                     => /\ Lt(dealRoi.monthlyCashFlow, Num(0))
                        /\ Lt(dealRoi.annualCashFlow, Num(0))
           /\ PartReturned =>
                /\ dealPart.monthlyCashFlow
                     = Sub(inputs.monthlyRent, dealPart.totalMonthlyExpenses)
                /\ dealPart.annualCashFlow = Mul(Num(12), dealPart.monthlyCashFlow)
                /\ Gt(dealPart.totalMonthlyExpenses, inputs.monthlyRent)
                     => /\ Lt(dealPart.monthlyCashFlow, Num(0))
                        /\ Lt(dealPart.annualCashFlow, Num(0))

\* both engines have returned metrics for a valid input whose expenses exceed
\* the rent
C8_Witness ==
    /\ ValidInput(inputs) /\ RoiReturned /\ PartReturned
    /\ Gt(dealRoi.totalMonthlyExpenses, inputs.monthlyRent)
    /\ Gt(dealPart.totalMonthlyExpenses, inputs.monthlyRent)

\* the inputs that differ from the current ones in interestRate only, one
\* rate zero and the other not
InterestTwins ==
    { [inputs EXCEPT !.interestRate = rate] :
        rate \in {x \in InterestRates : (x = Num(0)) # (inputs.interestRate = Num(0))} }

\* C9: two valid inputs that differ only in interestRate, one zero and one
\* nonzero, get the same capRatePercent, and different monthlyCashFlow when
\* loanAmount > 0 and loanTermYears > 0. Both scripts.
C9_CapRateIgnoresInterest ==
    ValidInput(inputs)
        => \A twin \in InterestTwins :
            /\ RoiReturned =>
                 /\ computeDealFromInputs(twin).capRate = dealRoi.capRate
                 /\ (Gt(dealRoi.loanAmount, Num(0)) /\ Gt(inputs.loanTermYears, Num(0)))
                      => computeDealFromInputs(twin).monthlyCashFlow
                            # dealRoi.monthlyCashFlow
            /\ PartReturned =>
                 /\ computeDeal(twin).capRate = dealPart.capRate
                 /\ (Gt(dealPart.loanAmount, Num(0)) /\ Gt(inputs.loanTermYears, Num(0)))
                      => computeDeal(twin).monthlyCashFlow # dealPart.monthlyCashFlow

\* both engines have returned metrics for a valid input with a loan and a
\* term, and an input differing in interestRate only exists
C9_Witness ==
    /\ ValidInput(inputs) /\ RoiReturned /\ PartReturned
    /\ InterestTwins # {}
    /\ Gt(dealRoi.loanAmount, Num(0)) /\ Gt(dealPart.loanAmount, Num(0))
    /\ Gt(inputs.loanTermYears, Num(0))

\* C10: for every valid input with downPaymentPercent = 100, loanAmount = 0,
\* monthlyMortgagePayment = 0 and totalCashInvested = purchasePrice +
\* closingCostsAmount + upfrontRepairs, whatever the rate and the term. Both
\* scripts.
C10_AllCash ==
    (ValidInput(inputs) /\ inputs.downPaymentPercent = Num(100))
        => LET allCash ==
                   Add(Add(inputs.purchasePrice,
                           Div(Mul(inputs.purchasePrice, inputs.closingCostsPercent),
                               Num(100))),
                       inputs.upfrontRepairs)
           IN  /\ RoiReturned =>
                    /\ dealRoi.loanAmount = Num(0)
                    /\ dealRoi.monthlyMortgage = Num(0)
                    /\ dealRoi.totalCashInvested = allCash
               /\ PartReturned =>
                    /\ dealPart.loanAmount = Num(0)
                    /\ dealPart.monthlyMortgage = Num(0)
                    /\ dealPart.totalCashInvested = allCash

\* both engines have returned metrics for an all-cash purchase with a
\* nonzero rate, term, closing costs and repairs
C10_Witness ==
    /\ ValidInput(inputs) /\ RoiReturned /\ PartReturned
    /\ inputs.downPaymentPercent = Num(100)
    /\ Gt(inputs.interestRate, Num(0)) /\ Gt(inputs.loanTermYears, Num(0))
    /\ Gt(inputs.closingCostsPercent, Num(0)) /\ Gt(inputs.upfrontRepairs, Num(0))

-----------------------------------------------------------------------------
(* C11 - C18 *)

\* x is within tol of c
Within(x, c, tol) == Le(Sub(c, tol), x) /\ Le(x, Add(c, tol))

\* C11, as stated: for the standard scenario loanAmount is 160000, the
\* monthly mortgage payment is within 0.01 of 959.28 and the verdict is
\* Negative or Borderline, in both scripts.
C11_StandardVerdictNegativeOrBorderline ==
    inputs = StandardScenario
        => /\ RoiReturned =>
                /\ dealRoi.loanAmount = Num(160000)
                /\ Within(dealRoi.monthlyMortgage, Rat(95928, 100), Rat(1, 100))
                /\ VerdictOf(dealRoi.verdictLabel) \in {"Negative", "Borderline"}
           /\ PartReturned =>
                /\ dealPart.loanAmount = Num(160000)
                /\ Within(dealPart.monthlyMortgage, Rat(95928, 100), Rat(1, 100))
                /\ VerdictOf(dealPart.verdictLabel) \in {"Negative", "Borderline"}

\* C11, amended: for the standard scenario loanAmount is 160000 and the
\* monthly mortgage payment is within 0.01 of 959.28; the monthly cash flow
\* is within 0.01 of 360.72, so positive, and the cash-on-cash return lies
\* between 8 and 12, so the first-match verdict is Decent. computeDeal of
\* part_000 returns Decent; computeDealFromInputs of rental-roi.js, with its
\* own verdict logic, returns "Strong on paper".
C11_StandardScenario ==
    inputs = StandardScenario
        => /\ RoiReturned =>
                /\ dealRoi.loanAmount = Num(160000)
                /\ Within(dealRoi.monthlyMortgage, Rat(95928, 100), Rat(1, 100))
                /\ Within(dealRoi.monthlyCashFlow, Rat(36072, 100), Rat(1, 100))
                /\ Ge(dealRoi.cashOnCash, Num(8)) /\ Lt(dealRoi.cashOnCash, Num(12))
                /\ FirstMatchVerdict(dealRoi.monthlyCashFlow, dealRoi.cashOnCash) = "Decent"
                /\ dealRoi.verdictLabel = "Strong on paper"
           /\ PartReturned =>
                /\ dealPart.loanAmount = Num(160000)
                /\ Within(dealPart.monthlyMortgage, Rat(95928, 100), Rat(1, 100))
                /\ Within(dealPart.monthlyCashFlow, Rat(36072, 100), Rat(1, 100))
                /\ Ge(dealPart.cashOnCashReturn, Num(8))
                /\ Lt(dealPart.cashOnCashReturn, Num(12))
                /\ FirstMatchVerdict(dealPart.monthlyCashFlow, dealPart.cashOnCashReturn)
                     = "Decent"
                /\ VerdictOf(dealPart.verdictLabel) = "Decent"

\* both engines have returned metrics for the standard scenario
C11_Witness == inputs = StandardScenario /\ RoiReturned /\ PartReturned

\* the numbers the script on the page reads from the form
FormInputs == IF script = "roi" THEN readInputs_roi(form) ELSE readInputs_part(form)

\* every metric display is in its placeholder state
MetricsBlank ==
    /\ display.cashFlowDisplay = Dash /\ display.cocDisplay = Dash
    /\ display.capRateDisplay = Dash /\ display.expensesDisplay = Dash
    /\ display.cashInvestedDisplay = Dash
    /\ display.verdictTag = Text("Awaiting inputs")

\* no report is stored for Copy or Email
NoReportStored ==
    IF script = "roi" THEN lastComputed = null ELSE noSummary(lastSummary)

\* the chip shows an error status
ShowsError(id) == chips[id].visible /\ chips[id].variant = "status-error"

\* C12: after any Calculate on a form whose purchasePrice <= 0 or
\* monthlyRent <= 0, every metric display is in its placeholder state and no
\* report is stored for Copy or Email, whatever was there before, in both
\* scripts.
C12_NoMetricsOnInsufficientData ==
    [][ ( (SubmitRoi \/ HandleCalculatePart)
          /\ (Le(FormInputs.purchasePrice, Num(0)) \/ Le(FormInputs.monthlyRent, Num(0))) )
        => (MetricsBlank /\ NoReportStored)' ]_vars

\* the entry is absent, unreadable or not valid JSON
BadStorage == storage \in {Absent, Unreadable, Stored(EmptyRaw), Stored(GarbageRaw)}

\* C13: when the stored entry is absent, unreadable or not valid JSON,
\* loadLastInputs returns null, the DOMContentLoaded handler of part_000
\* runs to its end without an exception, so the calculator is wired up, and
\* no form field is overwritten.
C13_BadStorageIsNoPriorInput ==
    [][ (DOMContentLoadedPart /\ BadStorage)
        => /\ loadLastInputs(storage) = null
           /\ loaded' = "wired"
           /\ form' = form ]_vars

\* part_000 has loaded, with a form the browser had filled in, over an entry
\* that is not valid JSON
C13_Witness ==
    /\ script = "part" /\ loaded = "wired"
    /\ storage = Stored(GarbageRaw)
    /\ form \in Forms

\* 12*monthlyRent - (annualTaxes + annualInsurance + 12*monthlyHOA
\*   + 12*maintenanceVacancyAmount + 12*otherMonthlyExpenses)
NOIOf(in) ==
    LET maintenanceVacancyAmount ==
            Div(Mul(in.monthlyRent, in.maintenancePercent), Num(100))
    IN  Sub(Mul(Num(12), in.monthlyRent),
            Add(Add(Add(Add(in.annualTaxes, in.annualInsurance),
                        Mul(Num(12), in.monthlyHOA)),
                    Mul(Num(12), maintenanceVacancyAmount)),
                Mul(Num(12), in.otherMonthly)))

\* the input that differs from the current one in the down payment, the
\* rate, the term, the closing costs and the repairs, in all five at once
FinancingTwin ==
    LET other(x, a, b) == IF x = Num(a) THEN Num(b) ELSE Num(a)
    IN  [inputs EXCEPT !.downPaymentPercent = other(@, 0, 100),
                       !.interestRate = other(@, 0, 1200),
                       !.loanTermYears = other(@, 0, 1),
                       !.closingCostsPercent = other(@, 0, 25),
                       !.upfrontRepairs = other(@, 0, 500)]

\* C14: for every valid input annualNOI = 12*monthlyRent - (annualTaxes +
\* annualInsurance + 12*monthlyHOA + 12*maintenanceVacancyAmount +
\* 12*otherMonthlyExpenses) and capRatePercent = 100 * annualNOI /
\* purchasePrice; the financing, the closing costs and the repairs change
\* neither; both scripts compute the same capRatePercent.
C14_NOIAndCapRate ==
    ValidInput(inputs)
        => LET noi == NOIOf(inputs)
               cap == Div(Mul(Num(100), noi), inputs.purchasePrice)
           IN  /\ RoiReturned =>
                    /\ dealRoi.annualNOI = noi
                    /\ dealRoi.capRate = cap
                    /\ LET deal == computeDealFromInputs(FinancingTwin)
                       IN  deal.annualNOI = noi /\ deal.capRate = cap
               /\ PartReturned =>
                    /\ dealPart.annualNOI = noi
                    /\ dealPart.capRate = cap
                    /\ LET deal == computeDeal(FinancingTwin)
                       IN  deal.annualNOI = noi /\ deal.capRate = cap
               /\ (RoiReturned /\ PartReturned) => dealRoi.capRate = dealPart.capRate

\* both engines have returned for a valid input with a mortgage payment,
\* closing costs and repairs, and with every operating expense present
C14_Witness ==
    /\ ValidInput(inputs) /\ RoiReturned /\ PartReturned
    /\ Gt(dealRoi.monthlyMortgage, Num(0)) /\ Gt(dealPart.monthlyMortgage, Num(0))
    /\ Gt(dealRoi.closingCosts, Num(0)) /\ Gt(inputs.upfrontRepairs, Num(0))
    /\ Gt(inputs.annualTaxes, Num(0)) /\ Gt(inputs.annualInsurance, Num(0))
    /\ Gt(inputs.monthlyHOA, Num(0)) /\ Gt(inputs.maintenancePercent, Num(0))
    /\ Gt(inputs.otherMonthly, Num(0))
    /\ FinancingTwin \in InputSpace /\ FinancingTwin # inputs

\* C15: when the clipboard write is rejected or the storage write throws,
\* an error status is shown; a rejected clipboard write leaves the stored
\* result and the displayed metrics as they were.
C15_CollaboratorFailureReported ==
    [][ (effect'.failed # "none")
        => /\ \E id \in ChipIds : ShowsError(id)'
           /\ effect'.failed = "clipboard"
                => /\ lastComputed' = lastComputed
                   /\ lastSummary' = lastSummary
                   /\ display' = display ]_vars

\* C16: Copy and Email hand a report to the clipboard or to the mail client
\* only if a Calculate has stored a result since page load and since the last
\* Reset; otherwise they show an error status and emit nothing. Email emits
\* nothing and shows an error status when the email field is blank. Both
\* scripts.
C16_EmitOnlyAfterCalculate ==
    [][ /\ effect'.kind \in {"writeText", "mailto"} => calculated
        /\ ((CopyClickRoi \/ CopyClickPart) /\ ~calculated)
             => (effect.kind = "none" /\ ShowsError("copyStatus"))'
        /\ ((EmailClickRoi \/ EmailClickPart) /\ (~calculated \/ trim(form.userEmail) = <<>>))
             => (effect.kind = "none" /\ ShowsError("emailStatus"))' ]_vars

\* part_000: a Calculate has saved its inputs, a Reset has followed, and a
\* Copy has been refused
C16_Witness ==
    /\ script = "part" /\ storage # Absent /\ ~calculated
    /\ chips["copyStatus"].textContent = "Run the calculator first."
    /\ ShowsError("copyStatus")
    /\ effect.kind = "none"

\* C17: while the hide timer of the call that showed a chip's message is
\* pending, the chip is visible: no timer of an earlier call hides the
\* message before its own delay has passed. Both scripts.
C17_MessageVisibleForItsDelay ==
    \A id \in ChipIds : timers[id] # {} => chips[id].visible

\* the request carries no email: no body, no email property or an empty one
EmailMissing == req.body \in {undefined, null} \/ noEmail(Property(req.body, "email"))

\* the statuses the handler may answer with; where the service answers with
\* a non-ok status and a body that cannot be read, both 400 and 500 are taken
ExpectedStatuses ==
    IF req.method # "POST" THEN {405}
    ELSE IF EmailMissing THEN {400}
    ELSE IF upstream = Thrown THEN {500}
    ELSE IF ~upstream.json THEN (IF ok(upstream) THEN {500} ELSE {400, 500})
    ELSE IF ~ok(upstream) THEN {400}
    ELSE {200}

\* C18: for every request the handler sends exactly one response, with status
\* 405 for a method other than POST, 400 for a missing email, 400 for a non-ok
\* answer of the service, 500 when the call of the service or the reading of
\* its body throws, 200 otherwise; the service is called only for a POST
\* with a non-empty email.
C18_OneResponsePerRequest ==
    /\ Len(sent) <= 1
    /\ pc \in {"done", "threw"} => (Len(sent) = 1 /\ sent[1] \in ExpectedStatuses)
    /\ contacted > 0 => (req.method = "POST" /\ ~EmailMissing)
    /\ contacted <= 1

====
